---- MODULE Spec2Model ----
(***************************************************************************)
(* apigen: the two source templates (struct.rs, error.rs) that render a    *)
(* Type Model entry into Rust source, and the helloworld example server.   *)
(*                                                                         *)
(* Text is modelled at two levels.  Free text that the templates transform *)
(* or that the emitted code interprets (documentation, error details,      *)
(* names and titles, user names) is a sequence of characters.  A          *)
(* character is a string: itself when it is printable ASCII (the           *)
(* backquote excepted), "\t" "\n" "\f" "\r" for those four, and "U+"    *)
(* with its code point in four or more upper-case hex digits otherwise     *)
(* ("U+2028", "U+00E9", "U+0060").                                         *)
(* Type references and status-code symbols, which the templates only copy, *)
(* are strings.                                                            *)
(* A rendered artifact is the sequence of its source lines that carry      *)
(* text, each line a record: `kind` names the template line it comes from  *)
(* and the other fields hold the values substituted into that line.        *)
(* Indentation and the blank lines the template tags leave behind are not  *)
(* represented.                                                            *)
(***************************************************************************)
EXTENDS Integers, Sequences, FiniteSets, TLC

VARIABLES input, artifact, inflight, state

vars == <<input, artifact, inflight, state>>

\* ------------------------------------------------------------------ bounds

\* Longest documentation / detail text enumerated exhaustively.
MaxDocLen == 3
MaxDetailLen == 3
\* Most properties of a struct / variants of an error enumerated.
MaxProps == 2
MaxVariants == 2
\* Number of request slots the server holds in flight at once.
MaxRequests == 3

\* ------------------------------------------------------------ text helpers

RECURSIVE Flatten(_)
Flatten(seqs) ==
    IF seqs = <<>> THEN <<>> ELSE Head(seqs) \o Flatten(Tail(seqs))

Strs(chars, n) == UNION {[1..k -> chars] : k \in 0..n}

\* All sequences of pairwise distinct elements of S, of length at most n.
DistinctSeqs(S, n) ==
    {q \in UNION {[1..k -> S] : k \in 0..n} :
        \A i, j \in 1..Len(q) : i # j => q[i] # q[j]}

LowerCase == <<"a", "b", "c", "d", "e", "f", "g", "h", "i", "j", "k", "l", "m",
               "n", "o", "p", "q", "r", "s", "t", "u", "v", "w", "x", "y", "z">>
UpperCase == <<"A", "B", "C", "D", "E", "F", "G", "H", "I", "J", "K", "L", "M",
               "N", "O", "P", "Q", "R", "S", "T", "U", "V", "W", "X", "Y", "Z">>
Digits == {"0", "1", "2", "3", "4", "5", "6", "7", "8", "9"}

IsLower(c) == \E i \in 1..Len(LowerCase) : LowerCase[i] = c
IsUpper(c) == \E i \in 1..Len(UpperCase) : UpperCase[i] = c
IsAlnum(c) == IsLower(c) \/ IsUpper(c) \/ c \in Digits
Upper(c) ==
    IF IsLower(c)
    THEN UpperCase[CHOOSE i \in 1..Len(LowerCase) : LowerCase[i] = c]
    ELSE c

IsDigit(c) == c \in Digits

\* The characters of a string.
Chars(str) == [i \in 1..Len(str) |-> SubSeq(str, i, i)]
Range(q) == {q[i] : i \in 1..Len(q)}

\* At(s, p): the character of s at position p, "" beyond its end.
At(s, p) == IF p >= 1 /\ p <= Len(s) THEN s[p] ELSE ""

\* Python's None and a present value; a template variable that may be absent.
None == <<>>
Some(v) == <<v>>

\* ---------------------------------------------------------- struct template

\* Line boundaries str.splitlines() recognises: LF, CR, VT, FF, FS, GS, RS,
\* NEL, LINE SEPARATOR and PARAGRAPH SEPARATOR.
LineBreaks ==
    {"\n", "\r", "U+000B", "\f", "U+001C", "U+001D", "U+001E", "U+0085",
     "U+2028", "U+2029"}

\* str.splitlines(): split at every line boundary, CR LF counting as one; the
\* terminators are dropped and a final terminator opens no further line.
RECURSIVE SplitFrom(_, _)
SplitFrom(s, cur) ==
    IF s = <<>> THEN (IF cur = <<>> THEN <<>> ELSE <<cur>>)
    ELSE IF Head(s) = "\r" /\ Len(s) >= 2 /\ s[2] = "\n"
         THEN <<cur>> \o SplitFrom(SubSeq(s, 3, Len(s)), <<>>)
    ELSE IF Head(s) \in LineBreaks
         THEN <<cur>> \o SplitFrom(Tail(s), <<>>)
    ELSE SplitFrom(Tail(s), Append(cur, Head(s)))

splitlines(s) == SplitFrom(s, <<>>)

\* {% if doc %}: None and the empty string are both false.
Truthy(doc) == doc # None /\ doc[1] # <<>>

\* DocLines without the split: the whole text on one comment line.
DocLinesCollapsed(doc) ==
    IF Truthy(doc) THEN <<[kind |-> "doc", text |-> doc[1]]>> ELSE <<>>

\* {% if doc %}{% for line in doc.splitlines() %}/// {{line}}{% endfor %}{% endif %}
DocLines(doc) ==
    IF Truthy(doc)
    THEN LET ls == splitlines(doc[1])
         IN  [i \in 1..Len(ls) |-> [kind |-> "doc", text |-> ls[i]]]
    ELSE <<>>

\* #[derive(Serialize, Deserialize, Clone, PartialEq)]
StructDerive ==
    [kind |-> "derive",
     traits |-> <<"Serialize", "Deserialize", "Clone", "PartialEq">>]

\* The body of {% for prop in props %}: the property's doc lines, then either
\* the renamed field match_ or the field under the property's own title.
PropLines(prop) ==
    DocLines(prop.doc) \o
    (IF prop.title = Chars("match")
     THEN <<[kind |-> "serde_rename", wire |-> Chars("match")],
            [kind |-> "field", name |-> Chars("match_"), type |-> prop.type]>>
     ELSE <<[kind |-> "field", name |-> prop.title, type |-> prop.type]>>)

\* {% for prop in props %} ... {% endfor %}
StructBody(props) ==
    Flatten([i \in 1..Len(props) |-> PropLines(props[i])])

struct_template(s) ==
    DocLines(s.doc)
    \o <<StructDerive, [kind |-> "struct_open", name |-> s.title]>>
    \o StructBody(s.props)
    \o <<[kind |-> "close"]>>

\* ----------------------------------------------------------- error template

\* The to_camel_case filter: the identifier-safe, title-cased form of a free
\* text.  Characters that cannot appear in an identifier separate words and
\* are dropped; the first character of every word is upper-cased.
RECURSIVE CamelFrom(_, _)
CamelFrom(s, atWordStart) ==
    IF s = <<>> THEN <<>>
    ELSE IF ~IsAlnum(Head(s)) THEN CamelFrom(Tail(s), TRUE)
    ELSE <<IF atWordStart THEN Upper(Head(s)) ELSE Head(s)>>
         \o CamelFrom(Tail(s), FALSE)

to_camel_case(s) == CamelFrom(s, TRUE)

\* ErrorDerive with Clone left out of the derive list.
ErrorDeriveNoClone ==
    [kind |-> "derive", traits |-> <<"Debug", "Serialize", "Deserialize">>]

\* #[derive(Debug, Serialize, Deserialize, Clone)]
ErrorDerive ==
    [kind |-> "derive",
     traits |-> <<"Debug", "Serialize", "Deserialize", "Clone">>]

\* pub enum E { {% for variant in variants %} Ident, {% endfor %} }
EnumBody(variants) ==
    [i \in 1..Len(variants) |->
        [kind |-> "variant", ident |-> to_camel_case(variants[i].detail)]]

\* The arms of the Display match: E::Ident => { write!(f, "detail") },
DisplayArms(error_type, variants) ==
    Flatten([i \in 1..Len(variants) |->
        <<[kind |-> "arm_open", enum |-> error_type,
           ident |-> to_camel_case(variants[i].detail)],
          [kind |-> "write", fmt |-> variants[i].detail],
          [kind |-> "arm_close"]>>])

\* StatusArms with the loop stopping one variant early.
StatusArmsDropLast(error_type, variants) ==
    [i \in 1..(Len(variants) - 1) |->
        [kind |-> "status_arm", enum |-> error_type,
         ident |-> to_camel_case(variants[i].detail),
         code |-> variants[i].code_name]]

\* The arms of the status_code match: E::Ident => StatusCode::CODE,
StatusArms(error_type, variants) ==
    [i \in 1..Len(variants) |->
        [kind |-> "status_arm", enum |-> error_type,
         ident |-> to_camel_case(variants[i].detail),
         code |-> variants[i].code_name]]

error_template(e) ==
    <<[kind |-> "comment", note |-> "Custom error"],
      ErrorDerive,
      [kind |-> "enum_open", name |-> e.error_type]>>
    \o EnumBody(e.variants)
    \o <<[kind |-> "close"],
         [kind |-> "impl_open", trait |-> "Display", target |-> e.error_type],
         [kind |-> "fn_open", name |-> "fmt"],
         [kind |-> "match_open"]>>
    \o DisplayArms(e.error_type, e.variants)
    \o <<[kind |-> "close"], [kind |-> "close"], [kind |-> "close"],
         [kind |-> "impl_empty", trait |-> "std::error::Error",
          target |-> e.error_type],
         [kind |-> "impl_open", trait |-> "ResponseError",
          target |-> e.error_type],
         [kind |-> "fn_open", name |-> "status_code"],
         [kind |-> "match_open"]>>
    \o StatusArms(e.error_type, e.variants)
    \o <<[kind |-> "close"], [kind |-> "close"], [kind |-> "close"]>>

\* ------------------------------------------------- reading an artifact back

LinesOfKind(art, k) == SelectSeq(art, LAMBDA l : l.kind = k)
Idents(lines) == [i \in 1..Len(lines) |-> lines[i].ident]
IndexesOfKind(art, k) == {i \in 1..Len(art) : art[i].kind = k}

\* Reserved identifiers of the target language: Rust's strict and reserved
\* keywords (editions 2018 and 2021).
RustKeywords ==
    {"as", "async", "await", "break", "const", "continue", "crate", "dyn",
     "else", "enum", "extern", "false", "fn", "for", "if", "impl", "in", "let",
     "loop", "match", "mod", "move", "mut", "pub", "ref", "return", "self",
     "Self", "static", "struct", "super", "trait", "true", "type", "unsafe",
     "use", "where", "while", "abstract", "become", "box", "do", "final",
     "macro", "override", "priv", "try", "typeof", "unsized", "virtual",
     "yield"}
Keywords == {Chars(k) : k \in RustKeywords}

HexLower == <<"0", "1", "2", "3", "4", "5", "6", "7", "8", "9",
              "a", "b", "c", "d", "e", "f">>
HexUpper == <<"0", "1", "2", "3", "4", "5", "6", "7", "8", "9",
              "A", "B", "C", "D", "E", "F">>
IsHex(c) == \E i \in 1..16 : HexLower[i] = c \/ HexUpper[i] = c
HexVal(c) == (CHOOSE i \in 1..16 : HexLower[i] = c \/ HexUpper[i] = c) - 1
RECURSIVE HexNumber(_)
HexNumber(ds) ==
    IF ds = <<>> THEN 0
    ELSE 16 * HexNumber(SubSeq(ds, 1, Len(ds) - 1)) + HexVal(ds[Len(ds)])
RECURSIVE HexText(_, _)
HexText(n, width) ==
    IF n = 0 /\ width <= 0 THEN ""
    ELSE HexText(n \div 16, width - 1) \o HexUpper[(n % 16) + 1]

\* The printable ASCII characters by code: 32 (space) to 95 (_) and 97 (a) to
\* 126 (~).
AsciiTo95 ==
    " !\"#$%&'()*+,-./0123456789:;<=>?@ABCDEFGHIJKLMNOPQRSTUVWXYZ[\\]^_"
AsciiFrom97 == "abcdefghijklmnopqrstuvwxyz{|}~"
CharOfCode(n) ==
    IF n >= 32 /\ n <= 95 THEN SubSeq(AsciiTo95, n - 31, n - 31)
    ELSE IF n >= 97 /\ n <= 126 THEN SubSeq(AsciiFrom97, n - 96, n - 96)
    ELSE IF n = 9 THEN "\t"
    ELSE IF n = 10 THEN "\n"
    ELSE IF n = 12 THEN "\f"
    ELSE IF n = 13 THEN "\r"
    ELSE "U+" \o HexText(n, 4)

\* The ASCII characters of a word: letters, digits and _.
IsAsciiWordChar(c) == IsAlnum(c) \/ c = "_"

\* White space between the tokens of Rust source (Pattern_White_Space).
SourceWhitespace ==
    {"\t", "\n", "U+000B", "\f", "\r", " ", "U+0085", "U+200E", "U+200F",
     "U+2028", "U+2029"}

Trim(cs) ==
    LET keep == {i \in 1..Len(cs) : cs[i] \notin SourceWhitespace}
    IN  IF keep = {} THEN <<>>
        ELSE SubSeq(cs, CHOOSE i \in keep : \A j \in keep : i <= j,
                        CHOOSE i \in keep : \A j \in keep : j <= i)

\* How the compiler reads the text a template puts where a name belongs.  The
\* white space around it separates tokens.  A text of ASCII word characters
\* is one word: "accepted" when it is an identifier, "rejected" when it is a
\* keyword, starts with a digit, is _ or is empty.  r#word is the raw
\* identifier word, which may be a keyword other than crate, self, super and
\* Self.  Any other text is "open": it holds a character outside ASCII,
\* which the compiler may accept in an identifier and normalises, or
\* characters of other tokens, which make it source of its own; what the
\* compiler makes of it is not decided here.  `ident` is the name an
\* accepted or rejected word spells.
ReadName(cs) ==
    LET t == Trim(cs)
        raw == Len(t) >= 2 /\ t[1] = "r" /\ t[2] = "#"
        body == IF raw THEN SubSeq(t, 3, Len(t)) ELSE t
        word == \A i \in 1..Len(body) : IsAsciiWordChar(body[i])
        ok == /\ body # <<>>
              /\ ~IsDigit(body[1])
              /\ body # <<"_">>
              /\ IF raw
                 THEN body \notin {Chars(k) :
                          k \in {"crate", "self", "super", "Self"}}
                 ELSE body \notin Keywords
    IN  IF ~word THEN [verdict |-> "open"]
        ELSE [verdict |-> IF ok THEN "accepted" ELSE "rejected", ident |-> body]

\* Outcomes of using emitted code.  "rejected": the compiler rejects the
\* artifact.  "open": the outcome is not decided here, because text of the
\* input leaves the place the template gave it and is read as Rust source,
\* or because it depends on names and characters the model does not know.  "overflow": the call recurses until
\* the stack is exhausted.  "address": the call prints a pointer value.
Prints(text) == [outcome |-> "prints", text |-> text]
Fails(how) == [outcome |-> how, text |-> <<>>]
Cons(c, rest) ==
    IF rest.outcome = "prints" THEN Prints(<<c>> \o rest.text) ELSE rest

\* The compiler reads CR LF as LF before it reads anything else.
RECURSIVE NormalizeNewlines(_)
NormalizeNewlines(s) ==
    IF s = <<>> THEN <<>>
    ELSE IF Head(s) = "\r" /\ At(s, 2) = "\n"
         THEN <<"\n">> \o NormalizeNewlines(SubSeq(s, 3, Len(s)))
    ELSE <<Head(s)>> \o NormalizeNewlines(Tail(s))

\* White space skipped after a backslash that ends a line of a literal.
LiteralWhitespace == {" ", "\t", "\n", "\r"}
SkipWhitespace(s, p) ==
    CHOOSE q \in p..(Len(s) + 1) :
        /\ \A r \in p..(q - 1) : s[r] \in LiteralWhitespace
        /\ At(s, q) \notin LiteralWhitespace

\* Code points that change the text direction; the compiler denies them in
\* literals and comments (text_direction_codepoint_in_literal / _in_comment).
BidiControls ==
    {"U+202A", "U+202B", "U+202C", "U+202D", "U+202E",
     "U+2066", "U+2067", "U+2068", "U+2069"}

\* The value of the string literal "<s>" as the Rust lexer reads it.  An
\* unescaped quote ends the literal inside s and the rest of s is source: the
\* template's closing quote then opens a literal of its own, which nothing
\* closes when this is the last literal of the file and the rest holds no
\* quote and no comment ("rejected"); otherwise "open".  A backslash
\* starts an escape; as the last character it escapes the template's closing
\* quote, with the same two outcomes.  A bare CR and a text-direction code
\* point are not allowed.
RECURSIVE UnescapeFrom(_, _)
UnescapeFrom(s, last) ==
    IF s = <<>> THEN Prints(<<>>)
    ELSE IF Head(s) = "\""
         THEN IF last /\ Range(Tail(s)) \cap {"\"", "/"} = {}
              THEN Fails("rejected")
              ELSE Fails("open")
    ELSE IF Head(s) = "\r" \/ Head(s) \in BidiControls THEN Fails("rejected")
    ELSE IF Head(s) # "\\" THEN Cons(Head(s), UnescapeFrom(Tail(s), last))
    ELSE IF Len(s) = 1
         THEN (IF last THEN Fails("rejected") ELSE Fails("open"))
    ELSE LET e == s[2]
             rest == SubSeq(s, 3, Len(s))
         IN  IF e = "n" THEN Cons("\n", UnescapeFrom(rest, last))
             ELSE IF e = "r" THEN Cons("\r", UnescapeFrom(rest, last))
             ELSE IF e = "t" THEN Cons("\t", UnescapeFrom(rest, last))
             ELSE IF e = "0" THEN Cons("U+0000", UnescapeFrom(rest, last))
             ELSE IF e \in {"\\", "'", "\""}
                  THEN Cons(e, UnescapeFrom(rest, last))
             ELSE IF e = "\n"
                  THEN UnescapeFrom(SubSeq(s, SkipWhitespace(s, 3), Len(s)),
                                    last)
             ELSE IF e = "x"
                  THEN IF /\ Len(s) >= 4
                          /\ s[3] \in {"0", "1", "2", "3", "4", "5", "6", "7"}
                          /\ IsHex(s[4])
                       THEN Cons(CharOfCode(HexNumber(<<s[3], s[4]>>)),
                                 UnescapeFrom(SubSeq(s, 5, Len(s)), last))
                       ELSE Fails("rejected")
             ELSE IF e = "u"
                  THEN LET closes == {k \in 4..Len(s) : s[k] = "}"}
                           k == CHOOSE k \in closes : \A j \in closes : k <= j
                           ds == SelectSeq(SubSeq(s, 4, k - 1),
                                           LAMBDA c : c # "_")
                       IN  IF /\ At(s, 3) = "{"
                              /\ closes # {}
                              /\ At(s, 4) # "_"
                              /\ Len(ds) >= 1 /\ Len(ds) <= 6
                              /\ \A i \in 1..Len(ds) : IsHex(ds[i])
                              /\ HexNumber(ds) <= 1114111
                              /\ ~(HexNumber(ds) >= 55296
                                   /\ HexNumber(ds) <= 57343)
                           THEN Cons(CharOfCode(HexNumber(ds)),
                                     UnescapeFrom(SubSeq(s, k + 1, Len(s)),
                                                  last))
                           ELSE Fails("rejected")
             ELSE Fails("rejected")

Unescape(s, last) == UnescapeFrom(NormalizeNewlines(s), last)

EndOfIdent(s, p) ==
    CHOOSE q \in p..(Len(s) + 1) :
        /\ \A r \in p..(q - 1) : IsAsciiWordChar(s[r])
        /\ ~IsAsciiWordChar(At(s, q))
EndOfDigits(s, p) ==
    CHOOSE q \in p..(Len(s) + 1) :
        /\ \A r \in p..(q - 1) : IsDigit(s[r])
        /\ ~IsDigit(At(s, q))

\* White space the format-string parser skips (Unicode White_Space).
FormatWhitespace ==
    {"\t", "\n", "U+000B", "\f", "\r", " ", "U+0085", "U+00A0", "U+1680",
     "U+2000", "U+2001", "U+2002", "U+2003", "U+2004", "U+2005", "U+2006",
     "U+2007", "U+2008", "U+2009", "U+200A", "U+2028", "U+2029", "U+202F",
     "U+205F", "U+3000"}
SkipFormatWhitespace(s, p) ==
    CHOOSE q \in p..(Len(s) + 1) :
        /\ \A r \in p..(q - 1) : s[r] \in FormatWhitespace
        /\ At(s, q) \notin FormatWhitespace

\* Whether a width or precision written in digits fits the 16 bits the
\* format-string parser gives it.
RECURSIVE DropZeros(_)
DropZeros(ds) ==
    IF ds # <<>> /\ Head(ds) = "0" THEN DropZeros(Tail(ds)) ELSE ds
RECURSIVE DecNumber(_)
DecNumber(ds) ==
    IF ds = <<>> THEN 0
    ELSE 10 * DecNumber(SubSeq(ds, 1, Len(ds) - 1)) + HexVal(ds[Len(ds)])
FitsU16(ds) ==
    Len(DropZeros(ds)) <= 5 /\ DecNumber(DropZeros(ds)) <= 65535

\* One format argument, read from the character after its opening brace:
\*   [argument] [ws]* [':' [[fill]align][sign]['#']['0'][width]
\*                         ['.' precision][type]] [ws]* '}'
\* `next` is the position after the closing brace and `use` what the argument
\* asks of the value.  The arm passes no argument to write!, so a positional
\* argument and every width or precision taken from an argument are
\* rejected; the only name in scope that can be formatted is self, whose type
\* implements Display (this impl), Debug (derived) and, being a reference,
\* Pointer.
FormatArgument(s, p) ==
    LET n == EndOfIdent(s, p)
        name == SubSeq(s, p, n - 1)
        colon == SkipFormatWhitespace(s, n)
        hasSpec == At(s, colon) = ":"
        a == colon + 1
        align == {"<", "^", ">"}
        a1 == IF a <= Len(s) /\ At(s, a + 1) \in align THEN a + 2
              ELSE IF At(s, a) \in align THEN a + 1 ELSE a
        a2 == IF At(s, a1) \in {"+", "-"} THEN a1 + 1 ELSE a1
        a3 == IF At(s, a2) = "#" THEN a2 + 1 ELSE a2
        a4 == IF At(s, a3) = "0" /\ At(s, a3 + 1) # "$" THEN a3 + 1 ELSE a3
        w == EndOfIdent(s, a4)
        widthArg == w > a4 /\ At(s, w) = "$"
        a5 == IF widthArg THEN w + 1 ELSE EndOfDigits(s, a4)
        width == IF widthArg THEN <<>> ELSE SubSeq(s, a4, a5 - 1)
        hasPrec == At(s, a5) = "."
        pr == EndOfIdent(s, a5 + 1)
        precArg == hasPrec /\ (At(s, a5 + 1) = "*"
                               \/ (pr > a5 + 1 /\ At(s, pr) = "$"))
        a6 == IF ~hasPrec THEN a5
              ELSE IF At(s, a5 + 1) = "*" THEN a5 + 2
              ELSE IF precArg THEN pr + 1
              ELSE EndOfDigits(s, a5 + 1)
        precision == IF hasPrec /\ ~precArg THEN SubSeq(s, a5 + 1, a6 - 1)
                     ELSE <<>>
        t == EndOfIdent(s, a6)
        word == SubSeq(s, a6, t - 1)
        debug == At(s, t) = "?" /\ word \in {<<>>, <<"x">>, <<"X">>}
        a7 == IF debug THEN t + 1 ELSE t
        specEnd == IF hasSpec THEN a7 ELSE n
        close == SkipFormatWhitespace(s, specEnd)
        use == IF At(s, close) # "}" THEN "rejected"
               ELSE IF name # <<"s", "e", "l", "f">> THEN "rejected"
               ELSE IF ~hasSpec THEN "display"
               ELSE IF widthArg \/ precArg THEN "rejected"
               ELSE IF ~FitsU16(width) \/ ~FitsU16(precision) THEN "rejected"
               ELSE IF debug THEN "debug"
               ELSE IF word = <<>> THEN "display"
               ELSE IF word = <<"p">> THEN "pointer"
               ELSE "rejected"
    IN  [next |-> close + 1, use |-> use]

\* What a format string prints for the variant named ident: {{ and }} stand
\* for one brace, any other { opens a format argument and any other } is
\* rejected.  Displaying self calls this impl again without end; Debug of a
\* payload-free variant writes its name.
RECURSIVE FormatFrom(_, _, _)
FormatFrom(s, p, ident) ==
    IF p > Len(s) THEN Prints(<<>>)
    ELSE IF s[p] = "}"
         THEN IF At(s, p + 1) = "}" THEN Cons("}", FormatFrom(s, p + 2, ident))
              ELSE Fails("rejected")
    ELSE IF s[p] # "{" THEN Cons(s[p], FormatFrom(s, p + 1, ident))
    ELSE IF At(s, p + 1) = "{" THEN Cons("{", FormatFrom(s, p + 2, ident))
    ELSE LET arg == FormatArgument(s, p + 1)
             rest == IF arg.use = "rejected" THEN Fails("rejected")
                     ELSE FormatFrom(s, arg.next, ident)
         IN  IF rest.outcome = "rejected" THEN rest
             ELSE IF arg.use = "display" THEN Fails("overflow")
             ELSE IF arg.use = "pointer"
                  THEN (IF rest.outcome = "overflow" THEN rest
                        ELSE Fails("address"))
             ELSE IF rest.outcome = "prints" THEN Prints(ident \o rest.text)
             ELSE rest

\* What write!(f, "<fmt>") does in the arm of the variant named ident: the
\* detail is first a string literal, then a format string.  `last` tells
\* whether the literal is the last one of the file.
FormatLiteral(fmt, ident, last) ==
    LET lit == Unescape(fmt, last)
    IN  IF lit.outcome = "prints" THEN FormatFrom(lit.text, 1, ident) ELSE lit

\* Names the file of an artifact may have in scope besides its own: the
\* standard prelude and the names the templates write.  A declared item of
\* such a name may hide the one the emitted or derived code means.
ScopeNames ==
    {Chars(k) : k \in
        {"Option", "Some", "None", "Result", "Ok", "Err", "String", "Vec",
         "Box", "ToString", "ToOwned", "Clone", "Copy", "Send", "Sync",
         "Sized", "Unpin", "Drop", "Fn", "FnMut", "FnOnce", "AsRef", "AsMut",
         "Into", "From", "TryInto", "TryFrom", "Default", "Iterator",
         "IntoIterator", "FromIterator", "Extend", "DoubleEndedIterator",
         "ExactSizeIterator", "Eq", "PartialEq", "Ord", "PartialOrd",
         "Debug", "Display", "Error", "Serialize", "Deserialize",
         "Serializer", "Deserializer", "ResponseError", "StatusCode"}}

\* The items error.rs names unqualified next to the enum it declares.
ErrorItemNames ==
    {Chars(k) : k \in {"std", "Display", "ResponseError", "StatusCode"}}

\* How the compiler reads the name of the struct or enum an artifact
\* declares.  A name the artifact itself writes for another item (`written`)
\* is "rejected".  A name that may hide something the derived code or the
\* rest of the file refers to is "open": one in ScopeNames, or one that does
\* not start with an upper-case letter (primitive types, the private names
\* of derived code).  (The file is taken to bring no other name into scope.)
ReadTitle(cs, written) ==
    LET r == ReadName(cs)
    IN  IF r.verdict # "accepted" THEN r.verdict
        ELSE IF r.ident \in written THEN "rejected"
        ELSE IF ~IsUpper(r.ident[1]) \/ r.ident \in ScopeNames THEN "open"
        ELSE "accepted"

\* The constants of StatusCode.
StatusCodes ==
    {"CONTINUE", "SWITCHING_PROTOCOLS", "PROCESSING", "OK", "CREATED",
     "ACCEPTED", "NON_AUTHORITATIVE_INFORMATION", "NO_CONTENT",
     "RESET_CONTENT", "PARTIAL_CONTENT", "MULTI_STATUS", "ALREADY_REPORTED",
     "IM_USED", "MULTIPLE_CHOICES", "MOVED_PERMANENTLY", "FOUND", "SEE_OTHER",
     "NOT_MODIFIED", "USE_PROXY", "TEMPORARY_REDIRECT", "PERMANENT_REDIRECT",
     "BAD_REQUEST", "UNAUTHORIZED", "PAYMENT_REQUIRED", "FORBIDDEN",
     "NOT_FOUND", "METHOD_NOT_ALLOWED", "NOT_ACCEPTABLE",
     "PROXY_AUTHENTICATION_REQUIRED", "REQUEST_TIMEOUT", "CONFLICT", "GONE",
     "LENGTH_REQUIRED", "PRECONDITION_FAILED", "PAYLOAD_TOO_LARGE",
     "URI_TOO_LONG", "UNSUPPORTED_MEDIA_TYPE", "RANGE_NOT_SATISFIABLE",
     "EXPECTATION_FAILED", "IM_A_TEAPOT", "MISDIRECTED_REQUEST",
     "UNPROCESSABLE_ENTITY", "LOCKED", "FAILED_DEPENDENCY",
     "UPGRADE_REQUIRED", "PRECONDITION_REQUIRED", "TOO_MANY_REQUESTS",
     "REQUEST_HEADER_FIELDS_TOO_LARGE", "UNAVAILABLE_FOR_LEGAL_REASONS",
     "INTERNAL_SERVER_ERROR", "NOT_IMPLEMENTED", "BAD_GATEWAY",
     "SERVICE_UNAVAILABLE", "GATEWAY_TIMEOUT", "HTTP_VERSION_NOT_SUPPORTED",
     "VARIANT_ALSO_NEGOTIATES", "INSUFFICIENT_STORAGE", "LOOP_DETECTED",
     "NOT_EXTENDED", "NETWORK_AUTHENTICATION_REQUIRED"}

\* Whether the items the error template declares are accepted.  "open" when
\* the enum's name is, when a detail is read as source of its own, or when
\* a code_name is not one of the constants of StatusCode.  Otherwise
\* "rejected" when the name is rejected, a variant is no identifier or is
\* declared twice, a Display arm holds a rejected literal, or there is no
\* variant at all (match self {} on a reference covers no value).
ErrorCompiles(art) ==
    LET names == Idents(LinesOfKind(art, "variant"))
        writes == IndexesOfKind(art, "write")
        arms == {FormatLiteral(art[i].fmt, art[i - 1].ident,
                               \A j \in writes : j <= i).outcome : i \in writes}
        verdicts == arms
                    \cup {ReadTitle(art[i].name, ErrorItemNames) :
                             i \in IndexesOfKind(art, "enum_open")}
                    \cup {ReadName(names[i]).verdict : i \in 1..Len(names)}
                    \cup {IF art[i].code \in StatusCodes
                          THEN "accepted" ELSE "open" :
                             i \in IndexesOfKind(art, "status_arm")}
    IN  IF "open" \in verdicts THEN "open"
        ELSE IF \/ "rejected" \in verdicts
                \/ names = <<>>
                \/ \E i, j \in 1..Len(names) : i # j /\ names[i] = names[j]
             THEN "rejected"
        ELSE "accepted"

\* impl Display: what formatting the variant does, the text the arm matching
\* it writes when the artifact is accepted.
Display(art, ident) ==
    IF ErrorCompiles(art) # "accepted" THEN Fails(ErrorCompiles(art))
    ELSE LET k == CHOOSE i \in IndexesOfKind(art, "arm_open") :
                      art[i].ident = ident
         IN  FormatLiteral(art[k + 1].fmt, ident,
                           \A j \in IndexesOfKind(art, "write") : j <= k + 1)

\* impl ResponseError: the status code the arm matching the variant names.
status_code(art, ident) ==
    IF ErrorCompiles(art) # "accepted" THEN ErrorCompiles(art)
    ELSE LET k == CHOOSE i \in IndexesOfKind(art, "status_arm") :
                      art[i].ident = ident
         IN  art[k].code

\* The line numbers of an artifact's fields, in order.
FieldLines(art) ==
    SelectSeq([i \in 1..Len(art) |-> i], LAMBDA i : art[i].kind = "field")

\* The wire key serde uses for the field at line i: the value of a
\* #[serde(rename = ...)] attribute directly above it, else the name the
\* field declares (without white space and without r#); not known for a
\* name that is open.
Key(k) == [known |-> TRUE, key |-> k]
WireKey(art, i) ==
    IF i > 1 /\ art[i - 1].kind = "serde_rename" THEN Key(art[i - 1].wire)
    ELSE IF ReadName(art[i].name).verdict = "open" THEN [known |-> FALSE]
    ELSE Key(ReadName(art[i].name).ident)

\* The tokens of a type reference: ASCII words and single characters; white
\* space separates tokens.
RECURSIVE TokensFrom(_, _)
TokensFrom(s, p) ==
    IF p > Len(s) THEN <<>>
    ELSE IF s[p] \in SourceWhitespace THEN TokensFrom(s, p + 1)
    ELSE IF IsAsciiWordChar(s[p])
         THEN <<SubSeq(s, p, EndOfIdent(s, p) - 1)>>
              \o TokensFrom(s, EndOfIdent(s, p))
    ELSE <<(<<s[p]>>)>> \o TokensFrom(s, p + 1)
Tokens(type) == TokensFrom(Chars(type), 1)

\* Types of the prelude and the language that a missing key is an error for.
PlainTypes ==
    {Chars(k) : k \in
        {"String", "bool", "char", "i8", "i16", "i32", "i64", "i128", "isize",
         "u8", "u16", "u32", "u64", "u128", "usize", "f32", "f64"}}

\* What a type reference is to derive(Deserialize) when its key is missing.
\* Decided for the references built from PlainTypes with Option<..>, Vec<..>
\* and Box<..>: "option" (the field becomes None) for Option and for a Box
\* of one, "value" (an error) for the others.  Every other reference is
\* "open": whether the compiler accepts it, and what it names, is not
\* decided here.
RECURSIVE TypeShapeOf(_)
TypeShapeOf(t) ==
    IF Len(t) = 1 THEN (IF t[1] \in PlainTypes THEN "value" ELSE "open")
    ELSE IF /\ Len(t) >= 4
            /\ t[1] \in {Chars("Option"), Chars("Vec"), Chars("Box")}
            /\ t[2] = <<"<">> /\ t[Len(t)] = <<">">>
         THEN LET inner == TypeShapeOf(SubSeq(t, 3, Len(t) - 1))
              IN  IF inner = "open" THEN "open"
                  ELSE IF t[1] = Chars("Option") THEN "option"
                  ELSE IF t[1] = Chars("Vec") THEN "value"
                  ELSE inner
    ELSE "open"
TypeShape(type) == TypeShapeOf(Tokens(type))

\* Whether the struct the template declares is accepted.  "open" when the
\* struct's name, a field's name or a field's type is.  Otherwise "rejected"
\* when a name is rejected, a field is declared twice or a documentation
\* comment holds a text-direction code point.
StructCompiles(art) ==
    LET fs == FieldLines(art)
        reads == [n \in 1..Len(fs) |-> ReadName(art[fs[n]].name)]
        verdicts == {reads[n].verdict : n \in 1..Len(fs)}
                    \cup {ReadTitle(art[i].name, {}) :
                             i \in IndexesOfKind(art, "struct_open")}
                    \cup {IF TypeShape(art[fs[n]].type) = "open"
                          THEN "open" ELSE "accepted" : n \in 1..Len(fs)}
    IN  IF "open" \in verdicts THEN "open"
        ELSE IF \/ "rejected" \in verdicts
                \/ \E m, n \in 1..Len(fs) :
                       m # n /\ reads[m].ident = reads[n].ident
                \/ \E i \in IndexesOfKind(art, "doc") :
                       Range(art[i].text) \cap BidiControls # {}
             THEN "rejected"
        ELSE "accepted"

\* derive(Serialize): the object a value of the struct is written as, one
\* <<key, value>> member per field, in field order.  There is no value to
\* write unless the struct is accepted.
Serialize(art, value) ==
    LET fs == FieldLines(art)
    IN  IF StructCompiles(art) # "accepted"
        THEN [ok |-> FALSE, error |-> StructCompiles(art)]
        ELSE [ok |-> TRUE,
              object |-> [n \in 1..Len(fs) |->
                             <<WireKey(art, fs[n]).key, value[n]>>]]

\* derive(Deserialize): a member goes to the first field that has its key as
\* wire key, so a later field with the same wire key never gets one; members
\* under other keys are ignored; a second member for a field is an error, and
\* so is a field left without a member unless its type is an option.
Deserialize(art, object) ==
    LET fs == FieldLines(art)
        first(n) == \A m \in 1..(n - 1) :
                        WireKey(art, fs[m]) # WireKey(art, fs[n])
        at(n) == {m \in 1..Len(object) :
                     first(n) /\ object[m][1] = WireKey(art, fs[n]).key}
    IN  IF StructCompiles(art) # "accepted"
        THEN [ok |-> FALSE, error |-> StructCompiles(art)]
        ELSE IF \E n \in 1..Len(fs) : Cardinality(at(n)) > 1
             THEN [ok |-> FALSE, error |-> "duplicate field"]
        ELSE IF \E n \in 1..Len(fs) :
                    at(n) = {} /\ TypeShape(art[fs[n]].type) # "option"
             THEN [ok |-> FALSE, error |-> "missing field"]
        ELSE [ok |-> TRUE,
              value |-> [n \in 1..Len(fs) |->
                            IF at(n) = {} THEN "None"
                            ELSE object[CHOOSE m \in at(n) : TRUE][2]]]

\* -------------------------------------------------------------- type model

DocChars == {"a", "\n", "\r", "U+2028", "U+202E"}
Docs == {None} \cup {Some(s) : s \in Strs(DocChars, MaxDocLen)}
ShortDocs == {None, Some(<<"a">>), Some(<<"a", "\n", "a">>)}

PropTitles ==
    {Chars("user"), Chars("match"), Chars("match_"), Chars("type")}
Types == {"String", "i64"}

\* The names of the helloworld example's path structure and error.
HelloUserPath == Chars("HelloUserPath")
HelloUserError == Chars("HelloUserError")

\* Structs with several properties (property titles are unique within a
\* struct) and short documentation.
WideStructSpecs ==
    {[kind |-> "struct", title |-> HelloUserPath, doc |-> d, props |-> ps] :
        d \in ShortDocs,
        ps \in UNION {
            {[i \in 1..Len(ts) |->
                 [title |-> ts[i], type |-> ty[i], doc |-> ds[i]]] :
                ty \in [1..Len(ts) -> Types], ds \in [1..Len(ts) -> ShortDocs]} :
            ts \in DistinctSeqs(PropTitles, MaxProps)}}

\* Structs with at most one property, where the struct or the property takes
\* every documentation text.
DeepStructSpecs ==
    {[kind |-> "struct", title |-> HelloUserPath, doc |-> d, props |-> ps] :
        d \in Docs,
        ps \in {<<>>} \cup
               {<<[title |-> t, type |-> "String", doc |-> pd]>> :
                   t \in {Chars("user"), Chars("match")}, pd \in ShortDocs}}
    \cup
    {[kind |-> "struct", title |-> HelloUserPath, doc |-> d,
      props |-> <<[title |-> t, type |-> "String", doc |-> pd]>>] :
        d \in ShortDocs, t \in {Chars("user"), Chars("match")}, pd \in Docs}

StructSpecs == WideStructSpecs \cup DeepStructSpecs

DetailChars == {"a", "b", " ", "{", "}", "\"", "\\"}
CodeNames == {"NOT_FOUND", "BAD_REQUEST"}
UserNotFound ==
    <<"u", "s", "e", "r", " ", "n", "o", "t", " ", "f", "o", "u", "n", "d">>
BadSelfDebug ==
    <<"b", "a", "d", " ", "{", "s", "e", "l", "f", ":", "?", "}">>
SampleDetails ==
    {UserNotFound, <<"a", "b">>, <<"a", " ", "b">>, <<"a", " ", " ", "b">>,
     <<"a", " ", "{", "s", "e", "l", "f", "}">>, BadSelfDebug}

\* Errors with several variants over a few details.
WideErrorSpecs ==
    {[kind |-> "error", error_type |-> HelloUserError, variants |-> vs] :
        vs \in UNION {[1..n -> [detail : SampleDetails, code_name : CodeNames]] :
                        n \in 1..MaxVariants}}

\* Errors with one variant and every non-empty detail text.
DeepErrorSpecs ==
    {[kind |-> "error", error_type |-> HelloUserError,
      variants |-> <<[detail |-> d, code_name |-> c]>>] :
        d \in Strs(DetailChars, MaxDetailLen) \ {<<>>}, c \in CodeNames}

ErrorSpecs == WideErrorSpecs \cup DeepErrorSpecs

\* --------------------------------------------------------- generation run

NotRendered == <<>>
NoRequests == [r \in 1..MaxRequests |-> [pc |-> "idle"]]

\* struct State {}
State == <<>>

RenderStruct ==
    /\ input.kind = "struct"
    /\ artifact = NotRendered
    /\ artifact' = struct_template(input)
    /\ UNCHANGED <<input, inflight, state>>

RenderError ==
    /\ input.kind = "error"
    /\ artifact = NotRendered
    /\ artifact' = error_template(input)
    /\ UNCHANGED <<input, inflight, state>>

Init ==
    /\ input \in StructSpecs \cup ErrorSpecs
    /\ artifact = NotRendered
    /\ inflight = NoRequests
    /\ state = State

Next == RenderStruct \/ RenderError

Spec == Init /\ [][Next]_vars

\* ------------------------------------------------------- helloworld server

Alice == <<"A", "l", "i", "c", "e">>
Bob == <<"B", "o", "b">>
Users == {Alice, Bob, <<>>}

\* No Type Model entry: the server runs no generation.
NoInput == [kind |-> "none"]

\* hello_user returning an error instead of the greeting.
hello_user_rejects(data, path) == [ok |-> FALSE, value |-> <<>>]

\* async fn hello_user(_data, path): Ok(format!("Hello, {}", path.user)).
\* The body holds no await, so one poll runs it to completion.
hello_user(data, path) ==
    [ok |-> TRUE, value |-> <<"H", "e", "l", "l", "o", ",", " ">> \o path.user]

\* The runtime binds an inbound request to hello_user with its path parameter.
Accept(r, u) ==
    /\ inflight[r].pc = "idle"
    /\ inflight' = [inflight EXCEPT ![r] =
                        [pc |-> "running", path |-> [user |-> u]]]
    /\ UNCHANGED <<input, artifact, state>>

\* One in-flight dispatch runs hello_user on the shared state and its own path.
HelloUser(r) ==
    /\ inflight[r].pc = "running"
    /\ inflight' = [inflight EXCEPT ![r] =
                        [pc |-> "done", path |-> inflight[r].path,
                         result |-> hello_user(state, inflight[r].path)]]
    /\ UNCHANGED <<input, artifact, state>>

\* The runtime writes the response and the slot is free again.
Respond(r) ==
    /\ inflight[r].pc = "done"
    /\ inflight' = [inflight EXCEPT ![r] = [pc |-> "idle"]]
    /\ UNCHANGED <<input, artifact, state>>

InitServer ==
    /\ input = NoInput
    /\ artifact = NotRendered
    /\ inflight = NoRequests
    /\ state = State

NextServer ==
    \/ \E r \in 1..MaxRequests, u \in Users : Accept(r, u)
    \/ \E r \in 1..MaxRequests : HelloUser(r)
    \/ \E r \in 1..MaxRequests : Respond(r)

SpecServer == InitServer /\ [][NextServer]_vars

\* ==================================================================== claims

Rendered == artifact # NotRendered
StructRendered == input.kind = "struct" /\ Rendered
ErrorRendered == input.kind = "error" /\ Rendered

ExpectedIdents == [i \in 1..Len(input.variants) |->
                      to_camel_case(input.variants[i].detail)]
NoRepeat(q) == \A i, j \in 1..Len(q) : i # j => q[i] # q[j]

\* The line numbers of the artifact's fields, in order.
FieldIndexes == FieldLines(artifact)

\* The maximal run of documentation-comment lines that ends right above line i.
DocBlockAbove(i) ==
    LET first == CHOOSE a \in 1..i :
                     /\ \A k \in a..(i - 1) : artifact[k].kind = "doc"
                     /\ (a = 1 \/ artifact[a - 1].kind # "doc")
    IN  [k \in 1..(i - first) |-> artifact[first + k - 1].text]

\* The lines of a documentation text, stated by position: a line ends where a
\* terminator ends (LF, CR, the pair CR LF, VT, FF, FS, GS, RS, NEL, LINE
\* SEPARATOR, PARAGRAPH SEPARATOR), and a text that does not end with a
\* terminator has one last line after the final terminator.
TerminatorEnds(s) ==
    {i \in 1..Len(s) :
        \/ s[i] \in {"\n", "U+000B", "\f", "U+001C", "U+001D", "U+001E",
                     "U+0085", "U+2028", "U+2029"}
        \/ s[i] = "\r" /\ ~(i < Len(s) /\ s[i + 1] = "\n")}
LineCount(s) ==
    Cardinality(TerminatorEnds(s))
    + (IF Len(s) > 0 /\ Len(s) \notin TerminatorEnds(s) THEN 1 ELSE 0)
NthEnd(s, k) ==
    IF k = 0 THEN 0
    ELSE IF k > Cardinality(TerminatorEnds(s)) THEN Len(s) + 1
    ELSE CHOOSE e \in TerminatorEnds(s) :
             Cardinality({x \in TerminatorEnds(s) : x <= e}) = k
NthLine(s, k) ==
    LET e == NthEnd(s, k)
        last == IF e > Len(s) THEN Len(s)
                ELSE IF s[e] = "\n" /\ e > 1 /\ s[e - 1] = "\r" THEN e - 2
                ELSE e - 1
    IN  SubSeq(s, NthEnd(s, k - 1) + 1, last)
SourceLines(doc) ==
    IF doc = None THEN <<>>
    ELSE [k \in 1..LineCount(doc[1]) |-> NthLine(doc[1], k)]

SampleValues == {"x", "y"}

\* C1: an error artifact rendered from N variants holds exactly N variants in
\* the enum body, N arms in the Display match and N arms in the status_code
\* match, each sequence naming the variants in declaration order, with the
\* Display arms inside impl Display and the status arms inside impl
\* ResponseError.
C1_ExhaustiveArms ==
    ErrorRendered =>
        LET body == Idents(LinesOfKind(artifact, "variant"))
            disp == Idents(LinesOfKind(artifact, "arm_open"))
            stat == Idents(LinesOfKind(artifact, "status_arm"))
            dImpl == CHOOSE i \in IndexesOfKind(artifact, "impl_open") :
                         artifact[i].trait = "Display"
            sImpl == CHOOSE i \in IndexesOfKind(artifact, "impl_open") :
                         artifact[i].trait = "ResponseError"
        IN  /\ Len(body) = Len(input.variants)
            /\ body = ExpectedIdents
            /\ disp = body
            /\ stat = body
            /\ \A i \in IndexesOfKind(artifact, "arm_open") :
                   /\ dImpl < i /\ i < sImpl
                   /\ artifact[i + 1].kind = "write"
                   /\ artifact[i + 2].kind = "arm_close"
            /\ \A i \in IndexesOfKind(artifact, "status_arm") : sImpl < i

C1_Witness ==
    /\ ErrorRendered
    /\ Len(input.variants) = MaxVariants
    /\ NoRepeat(ExpectedIdents)
    /\ Len(LinesOfKind(artifact, "status_arm")) = MaxVariants

\* C2: for every variant of an error whose details give distinct, non-empty
\* identifiers, the emitted identifier is the camel-cased detail, Display on
\* the variant prints exactly the detail, and status_code on the variant is
\* the variant's code_name.
C2_DisplayFidelity ==
    (ErrorRendered /\ NoRepeat(ExpectedIdents)
        /\ \A i \in 1..Len(ExpectedIdents) : ExpectedIdents[i] # <<>>) =>
        \A i \in 1..Len(input.variants) :
            LET id == LinesOfKind(artifact, "variant")[i].ident
            IN  /\ id = to_camel_case(input.variants[i].detail)
                /\ Display(artifact, id) = Prints(input.variants[i].detail)
                /\ status_code(artifact, id) = input.variants[i].code_name

\* C3: for every property titled match, the emitted field is named match_, the
\* line above it is the rename attribute with wire value match, the field's
\* wire key is match, and every value of the struct serializes the property
\* under the key match and deserializes back to itself.
C3_EscapeMatch ==
    StructRendered =>
        \A p \in 1..Len(input.props) :
            input.props[p].title = Chars("match") =>
                /\ Len(FieldIndexes) = Len(input.props)
                /\ LET f == FieldIndexes[p]
                   IN  /\ artifact[f].name = Chars("match_")
                       /\ artifact[f - 1] =
                              [kind |-> "serde_rename", wire |-> Chars("match")]
                       /\ WireKey(artifact, f) = Key(Chars("match"))
                /\ \A v \in [1..Len(input.props) -> SampleValues] :
                       LET written == Serialize(artifact, v)
                       IN  /\ written.ok
                           /\ written.object[p] = <<Chars("match"), v[p]>>
                           /\ Deserialize(artifact, written.object) =
                                  [ok |-> TRUE, value |-> v]

\* C4: no emitted field is named by a reserved identifier, and a property whose
\* title is a reserved identifier gets a field name that differs from the title
\* while its wire key stays the title.
C4_ReservedEscaped ==
    StructRendered =>
        /\ Len(FieldIndexes) = Len(input.props)
        /\ \A p \in 1..Len(input.props) :
               LET f == FieldIndexes[p]
               IN  /\ artifact[f].name \notin Keywords
                   /\ input.props[p].title \in Keywords =>
                          /\ artifact[f].name # input.props[p].title
                          /\ WireKey(artifact, f) = Key(input.props[p].title)

\* C5, for the properties of one struct: no artifact is produced in which one
\* field identifier appears twice.
C5_NoDuplicateFields ==
    StructRendered =>
        NoRepeat([n \in 1..Len(FieldIndexes) |-> artifact[FieldIndexes[n]].name])

\* The traits derived for the enum: the derive line right above pub enum.
EnumDerives ==
    LET e == CHOOSE i \in IndexesOfKind(artifact, "enum_open") : TRUE
        d == artifact[e - 1]
    IN  IF d.kind = "derive" THEN {d.traits[i] : i \in 1..Len(d.traits)} ELSE {}

\* Every variant line is a bare identifier: nothing but the name is emitted.
PayloadFree ==
    \A i \in IndexesOfKind(artifact, "variant") :
        /\ DOMAIN artifact[i] = {"kind", "ident"}
        /\ \A k \in 1..Len(artifact[i].ident) : IsAlnum(artifact[i].ident[k])

\* C6 as stated: the emitted enum derives Clone, Serialize, Deserialize and
\* PartialEq, and its variants carry no payload.
C6_IdentityWithEquality ==
    ErrorRendered =>
        /\ {"Clone", "Serialize", "Deserialize", "PartialEq"} \subseteq EnumDerives
        /\ PayloadFree

\* C6 amended: the emitted enum derives Clone, Serialize, Deserialize and
\* Debug but not PartialEq, and its variants carry no payload.
C6_Identity ==
    ErrorRendered =>
        /\ {"Clone", "Serialize", "Deserialize", "Debug"} \subseteq EnumDerives
        /\ "PartialEq" \notin EnumDerives
        /\ PayloadFree

C6_Witness ==
    /\ ErrorRendered
    /\ Len(LinesOfKind(artifact, "variant")) = MaxVariants
    /\ "Clone" \in EnumDerives

\* C7: a struct artifact rendered from N properties is one structure named by
\* the title, whose body holds exactly N fields, the n-th named by the n-th
\* property's title (match_ for match) and carrying its declared type; nothing
\* but documentation and rename attributes stands between the fields, and with
\* N = 0 the closing brace follows the opening line directly and the compiler
\* accepts the artifact.
C7_StructFields ==
    StructRendered =>
        LET opens == IndexesOfKind(artifact, "struct_open")
            N == Len(input.props)
        IN  /\ Cardinality(opens) = 1
            /\ LET o == CHOOSE i \in opens : TRUE
               IN  /\ artifact[o].name = input.title
                   /\ o > 1 /\ artifact[o - 1].kind = "derive"
                   /\ \A i \in (o + 1)..(Len(artifact) - 1) :
                          artifact[i].kind \in {"doc", "serde_rename", "field"}
                   /\ N = 0 => /\ o = Len(artifact) - 1
                                /\ StructCompiles(artifact) = "accepted"
            /\ artifact[Len(artifact)].kind = "close"
            /\ Len(FieldIndexes) = N
            /\ \A n \in 1..N :
                   /\ artifact[FieldIndexes[n]].type = input.props[n].type
                   /\ artifact[FieldIndexes[n]].name =
                          IF input.props[n].title = Chars("match")
                          THEN Chars("match_")
                          ELSE input.props[n].title

\* C9: the documentation-comment lines right above the structure are the lines
\* of the struct's documentation, one comment line per source line, in order
\* and verbatim; likewise the comment lines right above each property's field
\* (or above its rename attribute) are the lines of that property's
\* documentation; absent documentation gives no comment line.
C9_DocVerbatim ==
    StructRendered =>
        LET d == CHOOSE i \in IndexesOfKind(artifact, "derive") : TRUE
        IN  /\ DocBlockAbove(d) = SourceLines(input.doc)
            /\ Len(LinesOfKind(artifact, "doc")) =
                   Len(SourceLines(input.doc))
                   + Len(Flatten([p \in 1..Len(input.props) |->
                                     SourceLines(input.props[p].doc)]))
            /\ Len(FieldIndexes) = Len(input.props)
            /\ \A p \in 1..Len(input.props) :
                   LET f == FieldIndexes[p]
                       top == IF artifact[f - 1].kind = "serde_rename"
                              THEN f - 1 ELSE f
                   IN  DocBlockAbove(top) = SourceLines(input.props[p].doc)

C9_Witness ==
    /\ StructRendered
    /\ Len(SourceLines(input.doc)) >= 2
    /\ \E k \in 1..Len(SourceLines(input.doc)) : SourceLines(input.doc)[k] # <<>>
    /\ \E p \in 1..Len(input.props) : Len(SourceLines(input.props[p].doc)) >= 2
    /\ Len(LinesOfKind(artifact, "doc")) >= 4

\* C10: whatever the interleaving, every completed dispatch holds the success
\* value "Hello, " followed by the user of its own path parameter, and the
\* shared server state is the one the server was started with.
C10_HelloUser ==
    /\ state = State
    /\ \A r \in 1..MaxRequests :
           inflight[r].pc = "done" =>
               inflight[r].result =
                   [ok |-> TRUE,
                    value |-> <<"H", "e", "l", "l", "o", ",", " ">>
                              \o inflight[r].path.user]

C10_Witness ==
    \E r1, r2, r3 \in 1..MaxRequests :
        /\ inflight[r1].pc = "done" /\ inflight[r1].path.user = Alice
        /\ inflight[r2].pc = "done" /\ inflight[r2].path.user = Bob
        /\ inflight[r3].pc = "running"
        /\ inflight[r1].result.value =
               <<"H", "e", "l", "l", "o", ",", " ", "A", "l", "i", "c", "e">>

====
